---- MODULE Spec2Model ----
(***************************************************************************)
(* Prompt-Engineering-Challenges: the App component's progress store       *)
(* (load / persist effects over localStorage), the analysis service        *)
(* (stitchImages + analyzeImages) and the challenge attempt state machine  *)
(* that drives them.                                                       *)
(*                                                                         *)
(* App.tsx and analysisService.ts are translated from the source.  The     *)
(* ChallengeHost component, the CHALLENGES catalog and the ChallengeStatus *)
(* enum are imported by App.tsx but their files are not part of the        *)
(* sources at hand: the attempt state machine is modelled from section 4.4 *)
(* and 5 of the specification.                                             *)
(***************************************************************************)
EXTENDS Integers, Sequences, FiniteSets, Bags, TLC

\* ---------------------------------------------------------------- bounds
NumChallenges == 3      \* largest catalog explored
ConcurrentChallenges == 2 \* largest catalog explored with concurrent attempts
MaxStreak == 2          \* a challenge is not attempted again beyond this streak
MaxAttempts == 2        \* attempt records alive at the same time
MaxCalls == 2           \* login / signup / logout calls waiting at the same time

\* ------------------------------------------------------- policy constant
PassThreshold == 70     \* "a fixed threshold (policy constant)", spec 4.4 / 8

VARIABLES
    catalog,            \* CHALLENGES: the ids of the catalog, in catalog order
    apiKey,             \* process.env.API_KEY is set
    app,                \* "unmounted" | "mounted" | "crashed"
    isInitialized,      \* useState isInitialized
    challengeProgress,  \* useState challengeProgress (a JSON value)
    storage,            \* localStorage[PROGRESS_STORAGE_KEY] (a text)
    persistPending,     \* the persist effect is scheduled (challengeProgress changed)
    loadBranch,         \* which branch of the load effect ran: "none" | "stored" | "defaults" | "catch"
    attempts,           \* the attempts of the state machine that are not Idle
    lastSubmit,         \* the error of the last prompt submission, if it was rejected
    streakChange,       \* useState streakChange: "increase" | "decrease" | "none"
    streakTimer,        \* the timer of the streak sound effect is pending
    currentUser,        \* authService: let currentUser
    usersItem,          \* localStorage[USERS_KEY]
    currentUserItem,    \* localStorage[CURRENT_USER_KEY]
    calls,              \* the login / signup / logout calls that wait on their timer
    lastCall            \* the call that completed last, with what its caller got

signalVars == <<streakChange, streakTimer>>
authVars == <<currentUser, usersItem, currentUserItem, calls, lastCall>>

vars == <<catalog, apiKey, app, isInitialized, challengeProgress, storage,
          persistPending, loadBranch, attempts, lastSubmit,
          streakChange, streakTimer,
          currentUser, usersItem, currentUserItem, calls, lastCall>>

\* ------------------------------------------------------------ JSON values
\* A JavaScript value as far as the progress store can hold one: null or an
\* object keyed by challenge id.
JNull == [ty |-> "null", m |-> <<>>]
JObject(m) == [ty |-> "object", m |-> m]
EmptyObject == JObject(<<>>)

\* Object.keys(v): throws a TypeError on null (ok = FALSE).
ObjectKeys(v) ==
    IF v.ty = "null" THEN [ok |-> FALSE, keys |-> {}]
    ELSE [ok |-> TRUE, keys |-> DOMAIN v.m]

\* The ids ascending, as JSON.stringify enumerates integer keys.
RECURSIVE Ascending(_)
Ascending(S) ==
    IF S = {} THEN <<>>
    ELSE LET lo == CHOOSE x \in S : \A y \in S : x <= y
         IN  <<lo>> \o Ascending(S \ {lo})

\* A text of localStorage: absent (getItem gives null), the empty string,
\* a text that is no JSON, or a JSON text (its members in textual order).
NoItem == [k |-> "absent", ty |-> "none", members |-> <<>>]
EmptyText == [k |-> "empty", ty |-> "none", members |-> <<>>]
GarbageText == [k |-> "garbage", ty |-> "none", members |-> <<>>]
NullText == [k |-> "json", ty |-> "null", members |-> <<>>]

\* The number Infinity, which JSON.parse gives for a literal such as 1e999:
\* an integer above every finite score explored.
Infinity == 1000
\* null in the place of a number.
NullNumber == -1

\* JSON.stringify of a number: a non-finite number is written as null.
stringifyNumber(n) == IF n = Infinity THEN NullNumber ELSE n

\* JSON.stringify of one ChallengeProgress.
stringifyProgress(e) ==
    [status |-> e.status,
     streak |-> stringifyNumber(e.streak),
     previousSimilarityScore |-> stringifyNumber(e.previousSimilarityScore)]

\* JSON.stringify(v)
JSONstringify(v) ==
    IF v.ty = "null" THEN NullText
    ELSE LET ks == Ascending(DOMAIN v.m)
         IN  [k |-> "json", ty |-> "object",
              members |-> [i \in 1..Len(ks) |->
                              [key |-> ks[i], value |-> stringifyProgress(v.m[ks[i]])]]]

\* JSON.parse(t): throws a SyntaxError on a text that is no JSON (ok = FALSE).
JSONparse(t) ==
    IF t.k # "json" THEN [ok |-> FALSE, value |-> JNull]
    ELSE IF t.ty = "null" THEN [ok |-> TRUE, value |-> JNull]
    ELSE LET keys == {t.members[i].key : i \in 1..Len(t.members)}
             at(c) == CHOOSE i \in 1..Len(t.members) : t.members[i].key = c
         IN  [ok |-> TRUE, value |-> JObject([c \in keys |-> t.members[at(c)].value])]

\* `if (savedProgress)`: null and "" are falsy.
Truthy(t) == t.k \notin {"absent", "empty"}

\* ---------------------------------------------------------------- catalog
Ids == 1..NumChallenges

\* The catalogs explored: non-empty, ids unique (spec 3), in any order.
Catalogs ==
    {s \in UNION {[1..n -> Ids] : n \in 1..NumChallenges} :
        \A i, j \in 1..Len(s) : i # j => s[i] # s[j]}

IdsOf(cat) == {cat[i] : i \in 1..Len(cat)}
IndexOf(cat, c) == CHOOSE i \in 1..Len(cat) : cat[i] = c

\* ------------------------------------------------------- progress store
Progress(status, streak, score) ==
    [status |-> status, streak |-> streak, previousSimilarityScore |-> score]

\* CHALLENGES.forEach((challenge, index) => initialProgress[challenge.id] = ...)
\* JavaScript's index === 0 is position 1 of the sequence.
initialProgressOffByOne(cat) ==
    JObject([c \in IdsOf(cat) |->
        Progress(IF IndexOf(cat, c) = 2 THEN "UNLOCKED" ELSE "LOCKED", 0, 0)])

initialProgress(cat) ==
    JObject([c \in IdsOf(cat) |->
        Progress(IF IndexOf(cat, c) = 1 THEN "UNLOCKED" ELSE "LOCKED", 0, 0)])

\* The same loop in the catch block.
initialProgressCatch(cat) ==
    JObject([c \in IdsOf(cat) |->
        Progress(IF IndexOf(cat, c) = 1 THEN "UNLOCKED" ELSE "LOCKED", 0, 0)])

\* The "Load user progress" block of the mount effect: the value handed to
\* setChallengeProgress and the branch taken.
loadProgress(t, cat) ==
    IF Truthy(t)
    THEN IF JSONparse(t).ok
         THEN [value |-> JSONparse(t).value, branch |-> "stored"]
         ELSE [value |-> initialProgressCatch(cat), branch |-> "catch"]
    ELSE [value |-> initialProgress(cat), branch |-> "defaults"]

\* persistProgress that never writes.
persistProgressNever(p, t) == t

\* persistProgress without the test for an empty map.
persistProgressUnguarded(p, t) == JSONstringify(p)

\* The persist effect: what localStorage holds after it ran on progress p.
persistProgress(p, t) ==
    IF Cardinality(ObjectKeys(p).keys) > 0 THEN JSONstringify(p) ELSE t

\* --------------------------------------------------------- auth service
\* User | null
NoUser == [isNull |-> TRUE, username |-> ""]
User(username) == [isNull |-> FALSE, username |-> username]

\* An item of localStorage that the auth service writes: absent, or a JSON
\* text (of the users object: its members in insertion order; of a user).
AbsentItem == [k |-> "absent", members |-> <<>>, user |-> NoUser]
UsersText(users) == [k |-> "json", members |-> users, user |-> NoUser]
UserText(user) == [k |-> "json", members |-> <<>>, user |-> user]

\* getUsers(): `raw ? JSON.parse(raw) : {}`; the object as its members.
getUsers(item) == IF item.k = "absent" THEN <<>> ELSE item.members

\* setUsers(users)
setUsers(users) == UsersText(users)

\* users[username]: undefined (found = FALSE) or the stored password.
Lookup(users, username) ==
    IF \E i \in 1..Len(users) : users[i].key = username
    THEN [found |-> TRUE,
          value |-> users[CHOOSE i \in 1..Len(users) : users[i].key = username].value]
    ELSE [found |-> FALSE, value |-> ""]

\* `!users[username]`: undefined and the empty string are falsy.
Falsy(x) == ~x.found \/ x.value = ""

\* users[username] = password
Assign(users, username, password) ==
    IF \E i \in 1..Len(users) : users[i].key = username
    THEN [i \in 1..Len(users) |->
            IF users[i].key = username THEN [key |-> username, value |-> password]
            ELSE users[i]]
    ELSE Append(users, [key |-> username, value |-> password])

\* The state the auth service reads and writes.
Session(cur, users, stored) == [currentUser |-> cur, usersItem |-> users, currentUserItem |-> stored]

\* setCurrentUser(user)
setCurrentUser(st, user) ==
    [st EXCEPT !.currentUser = user,
               !.currentUserItem = IF user.isNull THEN AbsentItem ELSE UserText(user)]

\* getCurrentUser(): the module variable after the call.
getCurrentUser(st) ==
    IF ~st.currentUser.isNull THEN st.currentUser
    ELSE IF st.currentUserItem.k = "absent" THEN NoUser
    ELSE st.currentUserItem.user

Returned(st) == [st |-> st, outcome |-> "ok"]
Threw(st, msg) == [st |-> st, outcome |-> msg]

\* login, after its timer.
login(st, username, password) ==
    LET users == getUsers(st.usersItem)
    IN  IF Falsy(Lookup(users, username))
        THEN Threw(st, "User not found. Please sign up first.")
        ELSE IF Lookup(users, username).value # password
        THEN Threw(st, "Incorrect password.")
        ELSE Returned(setCurrentUser(st, User(username)))

\* signup, after its timer.
signup(st, username, password) ==
    LET users == getUsers(st.usersItem)
    IN  IF ~Falsy(Lookup(users, username))
        THEN Threw(st, "Username already exists.")
        ELSE Returned(setCurrentUser(
                 [st EXCEPT !.usersItem = setUsers(Assign(users, username, password))],
                 User(username)))

\* logout, after its timer.
logout(st) == Returned(setCurrentUser(st, NoUser))

NoCall == [op |-> "none", username |-> "", outcome |-> "none"]

\* The usernames and passwords explored.
Usernames == {"a", "b"}
Passwords == {"", "p", "q"}

NoSubmit == [ch |-> 0, outcome |-> "none"]

\* What an earlier installation can have left in localStorage besides the
\* texts the app itself writes.
InitialTexts == {NoItem, EmptyText, GarbageText, NullText, JSONstringify(EmptyObject)}

Init ==
    /\ catalog \in Catalogs
    /\ apiKey \in BOOLEAN
    /\ app = "unmounted"
    /\ isInitialized = FALSE
    /\ challengeProgress = EmptyObject
    /\ storage \in InitialTexts
    /\ persistPending = FALSE
    /\ loadBranch = "none"
    /\ attempts = {}
    /\ lastSubmit = NoSubmit
    /\ streakChange = "none"
    /\ streakTimer = FALSE
    /\ currentUser = NoUser
    /\ usersItem = AbsentItem
    /\ currentUserItem = AbsentItem
    /\ calls = EmptyBag
    /\ lastCall = NoCall

\* The first render (useState(getCurrentUser()) among its initial states) and
\* its effects, in order: the mount effect (initialize the AI service, load
\* the progress) and the persist effect, which sees the empty map of the
\* first render.  The load schedules a second render.
Mount ==
    /\ app = "unmounted"
    /\ app' = "mounted"
    /\ currentUser' = getCurrentUser(Session(currentUser, usersItem, currentUserItem))
    /\ isInitialized' = apiKey
    /\ challengeProgress' = loadProgress(storage, catalog).value
    /\ loadBranch' = loadProgress(storage, catalog).branch
    /\ storage' = persistProgress(challengeProgress, storage)
    /\ persistPending' = TRUE
    /\ UNCHANGED <<catalog, apiKey, attempts, lastSubmit>>
    /\ UNCHANGED <<usersItem, currentUserItem, calls, lastCall>>
    /\ UNCHANGED signalVars

\* The persist effect after a render with a changed challengeProgress.
\* Object.keys(null) throws inside the effect and React unmounts the tree.
PersistEffect ==
    /\ app = "mounted"
    /\ persistPending
    /\ persistPending' = FALSE
    /\ IF ObjectKeys(challengeProgress).ok
       THEN /\ storage' = persistProgress(challengeProgress, storage)
            /\ UNCHANGED <<app, attempts>>
       ELSE /\ app' = "crashed"
            /\ attempts' = {}
            /\ UNCHANGED storage
    /\ UNCHANGED <<catalog, apiKey, isInitialized, challengeProgress, loadBranch, lastSubmit>>
    /\ UNCHANGED <<signalVars, authVars>>

\* ------------------------------------------------------ oracle responses
\* A field of the parsed response: absent, a string, a number, or an array
\* (items: the type of each element).
Undefined == [ty |-> "undefined", n |-> 0, items |-> <<>>]
Str == [ty |-> "string", n |-> 0, items |-> <<>>]
Num(n) == [ty |-> "number", n |-> n, items |-> <<>>]
Arr(items) == [ty |-> "array", n |-> 0, items |-> items]

\* response.text: undefined, a text that is no JSON, or the JSON text of
\* null, of a number, or of an object with the two fields.
NoTextResponse == [k |-> "undefined", ty |-> "none", similarityScore |-> Undefined, feedback |-> Undefined]
GarbageResponse == [k |-> "garbage", ty |-> "none", similarityScore |-> Undefined, feedback |-> Undefined]
NullResponse == [k |-> "json", ty |-> "null", similarityScore |-> Undefined, feedback |-> Undefined]
NumberResponse == [k |-> "json", ty |-> "number", similarityScore |-> Undefined, feedback |-> Undefined]
ObjectResponse(s, f) == [k |-> "json", ty |-> "object", similarityScore |-> s, feedback |-> f]

\* The scores explored: failing, at the threshold, out of the 0-100 range.
Scores == {40, 70, 150}
Feedbacks ==
    {Arr(<<"string">>), Arr(<<"string", "string", "string">>),
     Arr(<<"string", "string", "string", "string">>), Arr(<<"number">>)}

\* Responses that fit the schema of the request: a failing and a passing score.
PlainResponses == {ObjectResponse(Num(n), Arr(<<"string">>)) : n \in {40, 70}}

\* Every kind of response the oracle can give.
Responses ==
    {NoTextResponse, GarbageResponse, NullResponse, NumberResponse,
     ObjectResponse(Undefined, Arr(<<>>)), ObjectResponse(Str, Arr(<<>>)),
     ObjectResponse(Num(70), Undefined), ObjectResponse(Num(70), Str)}
    \cup {ObjectResponse(Num(n), f) : n \in Scores, f \in Feedbacks}
    \cup {ObjectResponse(Num(Infinity), Arr(<<"string">>))}

\* ------------------------------------------------------ analysis service
\* A thrown value: an instance of Error (with its name and message) or not.
NoError == [thrown |-> FALSE, isError |-> FALSE, name |-> "", message |-> ""]
ErrorOf(name, msg) == [thrown |-> TRUE, isError |-> TRUE, name |-> name, message |-> msg]
NonError == [thrown |-> TRUE, isError |-> FALSE, name |-> "", message |-> ""]
\* new Error(msg)
Thrown(msg) == ErrorOf("Error", msg)
NoResult == [similarityScore |-> 0, feedback |-> <<>>]

\* The catch block of analyzeImages: what it throws for the caught value e.
Wrapped(e) ==
    IF e.isError THEN Thrown("Analysis failed: " \o e.message)
    ELSE Thrown("An unknown error occurred during analysis.")

StitchOutcomes ==
    {"ok", "noContext", "fetchFailed", "targetLoadFailed", "generatedLoadFailed"}

\* stitchImages: the error it throws, if any.
stitchImages(outcome) ==
    CASE outcome = "ok" -> NoError
      [] outcome = "noContext" -> Thrown("Could not get canvas context")
      [] outcome = "fetchFailed" -> Thrown("Failed to fetch image")
      [] outcome = "targetLoadFailed" -> Thrown("Failed to load target image")
      [] outcome = "generatedLoadFailed" -> Thrown("Failed to load generated image from base64")

\* stitchImages: the blob URL of the fetched target image when the call is
\* over: never created, still live, or revoked.
blobUrl(outcome) ==
    CASE outcome = "ok" -> "revoked"
      [] outcome = "noContext" -> "none"
      [] outcome = "fetchFailed" -> "none"
      [] outcome = "targetLoadFailed" -> "live"
      [] outcome = "generatedLoadFailed" -> "live"

\* What generateContent can reject with: a network failure, an error of the
\* API, a value that is no Error.  kind: the failure it stands for.
TransportFailure == [error |-> ErrorOf("TypeError", "fetch failed"), kind |-> "TransportError"]
ApiFailure == [error |-> ErrorOf("ApiError", "quota exceeded"), kind |-> "UnknownError"]
NonErrorFailure == [error |-> NonError, kind |-> "UnknownError"]
OracleRejections == {TransportFailure, ApiFailure, NonErrorFailure}

\* `!result || typeof result.similarityScore !== 'number' || !Array.isArray(result.feedback)`
malformed(r) ==
    \/ r.ty = "null"
    \/ r.similarityScore.ty # "number"
    \/ r.feedback.ty # "array"

\* Lines 482-489 of analyzeImages on the response r: the error thrown or the
\* result returned.
parseResponse(r) ==
    IF r.k = "undefined"
    THEN [error |-> Wrapped(ErrorOf("TypeError", "Cannot read properties of undefined (reading 'trim')")),
          result |-> NoResult]
    ELSE IF r.k = "garbage"
    THEN [error |-> Wrapped(ErrorOf("SyntaxError", "Unexpected token in JSON")), result |-> NoResult]
    ELSE IF malformed(r)
    THEN [error |-> Wrapped(Thrown("Model returned malformed analysis data.")), result |-> NoResult]
    ELSE [error |-> NoError,
          result |-> [similarityScore |-> r.similarityScore.n, feedback |-> r.feedback.items]]

\* ------------------------------------------------- attempt state machine
InFlight(a) == a.phase \in {"AwaitingGeneration", "Analyzing"}

\* submitOutcome without the test of the challenge's status.
submitOutcomeNoLock(p, atts, c) ==
    IF \E a \in atts : a.ch = c THEN "AttemptInProgressError"
    ELSE "started"

\* submitOutcome without the test for an attempt in progress.
submitOutcomeNoSingleFlight(p, atts, c) ==
    IF p.m[c].status = "LOCKED" THEN "ChallengeLockedError"
    ELSE "started"

\* The guard of a prompt submission for challenge c.
submitOutcome(p, atts, c) ==
    IF p.m[c].status = "LOCKED" THEN "ChallengeLockedError"
    ELSE IF \E a \in atts : a.ch = c THEN "AttemptInProgressError"
    ELSE "started"

\* prior: the challenge's progress when the attempt was scored (kept for the
\* caller with the result); overlapped: whether another attempt was in flight
\* at that moment (a history field).  Of the attempt's analyzeImages call:
\* oracleCalls counts its generateContent requests, blobUrl is the state of
\* the compositor's blob URL, failure the kind of failure that ended it.
\* shown: the streak-change signal that was showing when the attempt was
\* scored (a history field).
NewAttempt(c) ==
    [ch |-> c, phase |-> "AwaitingGeneration", pc |-> "none",
     prior |-> Progress("LOCKED", 0, 0), overlapped |-> FALSE, response |-> NoTextResponse,
     result |-> NoResult, error |-> NoError,
     oracleCalls |-> 0, blobUrl |-> "none", failure |-> "none", shown |-> "none"]

\* The UI submits {challengeId, prompt}.
Submit(c) ==
    /\ app = "mounted"
    /\ isInitialized
    /\ ~persistPending
    /\ challengeProgress.ty = "object"
    /\ c \in DOMAIN challengeProgress.m
    /\ challengeProgress.m[c].streak < MaxStreak
    /\ LET out == submitOutcome(challengeProgress, attempts, c)
       IN  /\ out = "started" => Cardinality(attempts) < MaxAttempts
           /\ lastSubmit' = IF out = "started" THEN NoSubmit ELSE [ch |-> c, outcome |-> out]
           /\ attempts' =
                IF out = "started"
                THEN attempts \cup {NewAttempt(c)}
                ELSE attempts
    /\ UNCHANGED <<catalog, apiKey, app, isInitialized, challengeProgress, storage,
                   persistPending, loadBranch>>
    /\ UNCHANGED <<signalVars, authVars>>

Replace(a, b) == (attempts \ {a}) \cup {b}

\* The generation collaborator answers: an encoded image, or a failure.
GenerationReturns(a, ok) ==
    /\ a \in attempts
    /\ a.phase = "AwaitingGeneration"
    /\ attempts' =
         Replace(a, IF ok THEN [a EXCEPT !.phase = "Analyzing", !.pc = "stitch"]
                    ELSE [a EXCEPT !.phase = "ScoredFailure", !.error = Thrown("Generation failed"),
                                   !.failure = "GenerationError"])
    /\ UNCHANGED <<catalog, apiKey, app, isInitialized, challengeProgress, storage,
                   persistPending, loadBranch, lastSubmit>>
    /\ UNCHANGED <<signalVars, authVars>>

\* analyzeImages that sends the request although stitchImages threw.
StitchImagesThenOracle(a, outcome) ==
    /\ a \in attempts
    /\ a.phase = "Analyzing"
    /\ a.pc = "stitch"
    /\ LET e == stitchImages(outcome)
       IN  attempts' =
             Replace(a, IF e.thrown
                        THEN [a EXCEPT !.pc = "oracle", !.blobUrl = blobUrl(outcome),
                                       !.failure = IF outcome = "noContext" THEN "RenderError"
                                                   ELSE "ImageLoadError",
                                       !.oracleCalls = a.oracleCalls + 1]
                        ELSE [a EXCEPT !.pc = "oracle", !.blobUrl = blobUrl(outcome),
                                       !.oracleCalls = a.oracleCalls + 1])
    /\ UNCHANGED <<catalog, apiKey, app, isInitialized, challengeProgress, storage,
                   persistPending, loadBranch, lastSubmit>>
    /\ UNCHANGED <<signalVars, authVars>>

\* analyzeImages up to the request of `await gemini.models.generateContent`:
\* stitchImages runs, and when it returns the request is sent.
StitchImages(a, outcome) ==
    /\ a \in attempts
    /\ a.phase = "Analyzing"
    /\ a.pc = "stitch"
    /\ LET e == stitchImages(outcome)
       IN  attempts' =
             Replace(a, IF e.thrown
                        THEN [a EXCEPT !.pc = "threw", !.error = Wrapped(e),
                                       !.blobUrl = blobUrl(outcome),
                                       !.failure = IF outcome = "noContext" THEN "RenderError"
                                                   ELSE "ImageLoadError"]
                        ELSE [a EXCEPT !.pc = "oracle", !.blobUrl = blobUrl(outcome),
                                       !.oracleCalls = a.oracleCalls + 1])
    /\ UNCHANGED <<catalog, apiKey, app, isInitialized, challengeProgress, storage,
                   persistPending, loadBranch, lastSubmit>>
    /\ UNCHANGED <<signalVars, authVars>>

\* analyzeImages that sends the request again when it was rejected.
OracleFailsRetry(a, x) ==
    /\ a \in attempts
    /\ a.phase = "Analyzing"
    /\ a.pc = "oracle"
    /\ a.oracleCalls < 3
    /\ attempts' = Replace(a, [a EXCEPT !.oracleCalls = a.oracleCalls + 1])
    /\ UNCHANGED <<catalog, apiKey, app, isInitialized, challengeProgress, storage,
                   persistPending, loadBranch, lastSubmit>>
    /\ UNCHANGED <<signalVars, authVars>>

\* gemini.models.generateContent rejects with rejection x.
OracleFails(a, x) ==
    /\ a \in attempts
    /\ a.phase = "Analyzing"
    /\ a.pc = "oracle"
    /\ attempts' = Replace(a, [a EXCEPT !.pc = "threw", !.error = Wrapped(x.error),
                                        !.failure = x.kind])
    /\ UNCHANGED <<catalog, apiKey, app, isInitialized, challengeProgress, storage,
                   persistPending, loadBranch, lastSubmit>>
    /\ UNCHANGED <<signalVars, authVars>>

\* generateContent resolves with response r; analyzeImages parses, validates
\* and returns or throws.
OracleResponds(a, r) ==
    /\ a \in attempts
    /\ a.phase = "Analyzing"
    /\ a.pc = "oracle"
    /\ LET out == parseResponse(r)
       IN  attempts' =
             Replace(a, [a EXCEPT !.response = r,
                                  !.pc = IF out.error.thrown THEN "threw" ELSE "returned",
                                  !.error = out.error,
                                  !.result = out.result,
                                  !.failure = IF out.error.thrown THEN "MalformedResponseError"
                                              ELSE "none"])
    /\ UNCHANGED <<catalog, apiKey, app, isInitialized, challengeProgress, storage,
                   persistPending, loadBranch, lastSubmit>>
    /\ UNCHANGED <<signalVars, authVars>>

\* The highest catalog index whose challenge is Unlocked (0: none).
HighestUnlocked(p, cat) ==
    LET S == {i \in 1..Len(cat) : cat[i] \in DOMAIN p.m /\ p.m[cat[i]].status = "UNLOCKED"}
    IN  IF S = {} THEN 0 ELSE CHOOSE i \in S : \A j \in S : j <= i

\* applyResult with the pass test written `>` instead of `>=`.
applyResultStrict(p, cat, a) ==
    LET c == a.ch
        e == p.m[c]
        v == a.result.similarityScore
        pass == v > PassThreshold
        i == IndexOf(cat, c)
        unlockNext == /\ pass
                      /\ HighestUnlocked(p, cat) = i
                      /\ i < Len(cat)
                      /\ p.m[cat[i + 1]].status = "LOCKED"
        own == Progress(IF pass /\ e.status = "UNLOCKED" THEN "COMPLETED" ELSE e.status,
                        IF pass THEN e.streak + 1 ELSE 0,
                        v)
    IN  JObject([d \in DOMAIN p.m |->
            IF d = c THEN own
            ELSE IF unlockNext /\ d = cat[i + 1] THEN [p.m[d] EXCEPT !.status = "UNLOCKED"]
            ELSE p.m[d]])

\* applyResult unlocking the challenge with the next id instead of the next
\* catalog entry.
applyResultNextId(p, cat, a) ==
    LET c == a.ch
        e == p.m[c]
        v == a.result.similarityScore
        pass == v >= PassThreshold
        i == IndexOf(cat, c)
        unlockNext == /\ pass
                      /\ HighestUnlocked(p, cat) = i
                      /\ c + 1 \in DOMAIN p.m
                      /\ p.m[c + 1].status = "LOCKED"
        own == Progress(IF pass /\ e.status = "UNLOCKED" THEN "COMPLETED" ELSE e.status,
                        IF pass THEN e.streak + 1 ELSE 0,
                        v)
    IN  JObject([d \in DOMAIN p.m |->
            IF d = c THEN own
            ELSE IF unlockNext /\ d = c + 1 THEN [p.m[d] EXCEPT !.status = "UNLOCKED"]
            ELSE p.m[d]])

\* applyResult writing the attempt's entry into the default map instead of
\* merging it into the current map.
applyResultOverDefaults(p, cat, a) ==
    LET c == a.ch
        e == p.m[c]
        v == a.result.similarityScore
        pass == v >= PassThreshold
        i == IndexOf(cat, c)
        base == initialProgress(cat)
        unlockNext == /\ pass
                      /\ HighestUnlocked(p, cat) = i
                      /\ i < Len(cat)
                      /\ p.m[cat[i + 1]].status = "LOCKED"
        own == Progress(IF pass /\ e.status = "UNLOCKED" THEN "COMPLETED" ELSE e.status,
                        IF pass THEN e.streak + 1 ELSE 0,
                        v)
    IN  JObject([d \in DOMAIN p.m |->
            IF d = c THEN own
            ELSE IF unlockNext /\ d = cat[i + 1] THEN [base.m[d] EXCEPT !.status = "UNLOCKED"]
            ELSE base.m[d]])

\* The ProgressMap after the result of attempt a is applied to p (spec 4.4,
\* "On Scored(success)"): a per-key merge into the current map.
applyResult(p, cat, a) ==
    LET c == a.ch
        e == p.m[c]
        v == a.result.similarityScore
        pass == v >= PassThreshold
        i == IndexOf(cat, c)
        unlockNext == /\ pass
                      /\ HighestUnlocked(p, cat) = i
                      /\ i < Len(cat)
                      /\ p.m[cat[i + 1]].status = "LOCKED"
        own == Progress(IF pass /\ e.status = "UNLOCKED" THEN "COMPLETED" ELSE e.status,
                        IF pass THEN e.streak + 1 ELSE 0,
                        v)
    IN  JObject([d \in DOMAIN p.m |->
            IF d = c THEN own
            ELSE IF unlockNext /\ d = cat[i + 1] THEN [p.m[d] EXCEPT !.status = "UNLOCKED"]
            ELSE p.m[d]])

\* The streak-change signal of a Scored transition: the attempt passed, or it
\* lost a streak, or neither.
streakSignal(e, a) ==
    IF a.pc # "returned" THEN "none"
    ELSE IF a.result.similarityScore >= PassThreshold THEN "increase"
    ELSE IF e.streak > 0 THEN "decrease"
    ELSE "none"

\* The streak sound effect whose cleanup clears the timer but which arms a
\* new one only when no signal was showing.
streakSoundEffectNoRearm(old, new, timer) ==
    IF new = old THEN timer
    ELSE old = "none" /\ new # "none"

\* The streak sound effect after setStreakChange(new): whether its timer is
\* pending.  An unchanged value causes no render (the timer stays as it
\* was); a changed one runs the cleanup (clearTimeout) and the effect, which
\* sets a timer unless the value is 'none'.
streakSoundEffect(old, new, timer) ==
    IF new = old THEN timer
    ELSE new # "none"

\* analyzeImages has returned or thrown: the state machine scores the attempt
\* and emits the streak-change signal.
ApplyResult(a) ==
    /\ a \in attempts
    /\ a.phase = "Analyzing"
    /\ a.pc \in {"returned", "threw"}
    /\ app = "mounted"
    /\ ~persistPending
    /\ IF a.pc = "returned"
       THEN /\ challengeProgress' = applyResult(challengeProgress, catalog, a)
            /\ persistPending' = TRUE
            /\ attempts' = Replace(a, [a EXCEPT !.phase = "ScoredSuccess", !.pc = "done",
                                                !.prior = challengeProgress.m[a.ch],
                                                !.overlapped = \E x \in attempts \ {a} : InFlight(x),
                                                !.shown = streakChange,
                                                !.response = NoTextResponse])
       ELSE /\ attempts' = Replace(a, [a EXCEPT !.phase = "ScoredFailure", !.pc = "done",
                                                !.shown = streakChange,
                                                !.response = NoTextResponse])
            /\ UNCHANGED <<challengeProgress, persistPending>>
    /\ LET signal == streakSignal(challengeProgress.m[a.ch], a)
       IN  /\ streakChange' = signal
           /\ streakTimer' = streakSoundEffect(streakChange, signal, streakTimer)
    /\ UNCHANGED <<catalog, apiKey, app, isInitialized, storage, loadBranch, lastSubmit>>
    /\ UNCHANGED authVars

\* The timer of the streak sound effect fires: setStreakChange('none').
StreakTimerFires ==
    /\ app = "mounted"
    /\ streakTimer
    /\ streakChange' = "none"
    /\ streakTimer' = streakSoundEffect(streakChange, "none", FALSE)
    /\ UNCHANGED <<catalog, apiKey, app, isInitialized, challengeProgress, storage,
                   persistPending, loadBranch, attempts, lastSubmit>>
    /\ UNCHANGED authVars

\* Scored(*) -> Idle.
ReturnToIdle(a) ==
    /\ a \in attempts
    /\ a.phase \in {"ScoredSuccess", "ScoredFailure"}
    /\ ~persistPending
    /\ attempts' = attempts \ {a}
    /\ UNCHANGED <<catalog, apiKey, app, isInitialized, challengeProgress, storage,
                   persistPending, loadBranch, lastSubmit>>
    /\ UNCHANGED <<signalVars, authVars>>

\* The page is closed and opened again: component state, module variables,
\* timers and calls are gone, localStorage stays.
Reload ==
    /\ app # "unmounted"
    /\ app' = "unmounted"
    /\ isInitialized' = FALSE
    /\ challengeProgress' = EmptyObject
    /\ persistPending' = FALSE
    /\ loadBranch' = "none"
    /\ attempts' = {}
    /\ lastSubmit' = NoSubmit
    /\ streakChange' = "none"
    /\ streakTimer' = FALSE
    /\ currentUser' = NoUser
    /\ calls' = EmptyBag
    /\ lastCall' = NoCall
    /\ UNCHANGED <<catalog, apiKey, storage, usersItem, currentUserItem>>

\* ------------------------------------------------------- session calls
\* The call login(username, password), signup(username, password) or logout().
\* calls is a bag: two calls with the same arguments may wait at once.
TheCall(op, username, password) == [op |-> op, username |-> username, password |-> password]

\* handleLogin / handleSignup / handleLogout call the service: the call waits
\* on its timer (`await new Promise((r) => setTimeout(r, ...))`).  logout
\* takes no arguments.
Call(op, username, password) ==
    /\ app = "mounted"
    /\ isInitialized
    /\ BagCardinality(calls) < MaxCalls
    /\ op = "logout" => username = "" /\ password = ""
    /\ op # "logout" => username \in Usernames /\ password \in Passwords
    /\ calls' = calls (+) SetToBag({TheCall(op, username, password)})
    /\ UNCHANGED <<catalog, apiKey, app, isInitialized, challengeProgress, storage,
                   persistPending, loadBranch, attempts, lastSubmit>>
    /\ UNCHANGED <<currentUser, usersItem, currentUserItem, lastCall>>
    /\ UNCHANGED signalVars

\* What call c does to the session state st once its timer has fired.
Run(c, st) ==
    CASE c.op = "login" -> login(st, c.username, c.password)
      [] c.op = "signup" -> signup(st, c.username, c.password)
      [] c.op = "logout" -> logout(st)

\* The timer of call c has fired: the rest of the function runs to its end.
Completes(c) ==
    /\ BagIn(c, calls)
    /\ app = "mounted"
    /\ LET out == Run(c, Session(currentUser, usersItem, currentUserItem))
       IN  /\ currentUser' = out.st.currentUser
           /\ usersItem' = out.st.usersItem
           /\ currentUserItem' = out.st.currentUserItem
           /\ lastCall' = [op |-> c.op, username |-> c.username, outcome |-> out.outcome]
    /\ calls' = calls (-) SetToBag({c})
    /\ UNCHANGED <<catalog, apiKey, app, isInitialized, challengeProgress, storage,
                   persistPending, loadBranch, attempts, lastSubmit>>
    /\ UNCHANGED signalVars

\* ----------------------------------------------------------- the system
\* The state machine with concurrent attempts, over responses that fit the
\* schema; generation and the oracle call may fail (the compositor's failures
\* are explored by NextAnalysis).  The streak timer fires before the next
\* step of the page or of an attempt (a signal that is still showing when the
\* next attempt is scored is explored by NextAnalysis and NextStore).
Next ==
    \/ StreakTimerFires
    \/ /\ ~streakTimer
       /\ \/ Mount
          \/ PersistEffect
          \/ Reload
          \/ \E c \in Ids : Submit(c)
          \/ \E a \in attempts, ok \in BOOLEAN : GenerationReturns(a, ok)
          \/ \E a \in attempts : StitchImages(a, "ok")
          \/ \E a \in attempts : OracleFails(a, TransportFailure)
          \/ \E a \in attempts, r \in PlainResponses : OracleResponds(a, r)
          \/ \E a \in attempts : ApplyResult(a)
          \/ \E a \in attempts : ReturnToIdle(a)

\* Catalogs whose ids differ from their positions.
MachineCatalogs ==
    {s \in Catalogs : /\ Len(s) <= ConcurrentChallenges
                      /\ \A i \in 1..Len(s) : s[i] = NumChallenges + 1 - i}

InitMachine == Init /\ catalog \in MachineCatalogs

Spec == InitMachine /\ [][Next]_vars

\* One attempt at a time, over every kind of oracle response and every
\* outcome of the compositor.
NextAnalysis ==
    \/ Mount
    \/ PersistEffect
    \/ Reload
    \/ \E c \in Ids : attempts = {} /\ Submit(c)
    \/ \E a \in attempts, ok \in BOOLEAN : GenerationReturns(a, ok)
    \/ \E a \in attempts, outcome \in StitchOutcomes : StitchImages(a, outcome)
    \/ \E a \in attempts, x \in OracleRejections : OracleFails(a, x)
    \/ \E a \in attempts, r \in Responses : OracleResponds(a, r)
    \/ \E a \in attempts : ApplyResult(a)
    \/ \E a \in attempts : ReturnToIdle(a)
    \/ StreakTimerFires

SpecAnalysis == InitMachine /\ [][NextAnalysis]_vars

\* The progress store over every catalog and every stored text, with one
\* attempt at a time changing the map.
NextStore ==
    \/ Mount
    \/ PersistEffect
    \/ Reload
    \/ \E c \in Ids : attempts = {} /\ Submit(c)
    \/ \E a \in attempts : GenerationReturns(a, TRUE)
    \/ \E a \in attempts : StitchImages(a, "ok")
    \/ \E a \in attempts, r \in PlainResponses : OracleResponds(a, r)
    \/ \E a \in attempts : ApplyResult(a)
    \/ \E a \in attempts : ReturnToIdle(a)
    \/ StreakTimerFires

SpecStore == Init /\ [][NextStore]_vars

\* A session for the liveness properties: one attempt at a time, responses that
\* fit the schema, a failure of each step, and a page that is not closed
\* between a render and its effects.  The effects React has scheduled run
\* (the persist effect), and a pending timer fires.
NextLive ==
    \/ Mount
    \/ PersistEffect
    \/ ~persistPending /\ Reload
    \/ \E c \in Ids : attempts = {} /\ Submit(c)
    \/ \E a \in attempts, ok \in BOOLEAN : GenerationReturns(a, ok)
    \/ \E a \in attempts, outcome \in {"ok", "noContext"} : StitchImages(a, outcome)
    \/ \E a \in attempts : OracleFails(a, TransportFailure)
    \/ \E a \in attempts, r \in PlainResponses : OracleResponds(a, r)
    \/ \E a \in attempts : ApplyResult(a)
    \/ \E a \in attempts : ReturnToIdle(a)
    \/ StreakTimerFires

SpecLive ==
    InitMachine /\ [][NextLive]_vars /\ WF_vars(PersistEffect) /\ WF_vars(StreakTimerFires)

\* The session calls of a page that has its API key: any number of login,
\* signup and logout calls up to MaxCalls wait on their timers at once and
\* complete in any order.
Operations == {"login", "signup", "logout"}

NextAuth ==
    \/ Mount
    \/ PersistEffect
    \/ Reload
    \/ \E op \in Operations, username \in Usernames \cup {""}, password \in Passwords :
           Call(op, username, password)
    \/ \E c \in BagToSet(calls) : Completes(c)

InitAuth == Init /\ catalog = <<1>> /\ apiKey /\ storage = NoItem

SpecAuth == InitAuth /\ [][NextAuth]_vars

\* ------------------------------------------------------------- properties
\* The entry of challenge c in progress value p.
Entry(p, c) == p.m[c]

\* Attempt a is scored in this step with the result analyzeImages returned.
ScoredNow(a) ==
    /\ a \in attempts
    /\ a.phase = "Analyzing"
    /\ a.pc = "returned"
    /\ a \notin attempts'
    /\ \E b \in attempts' : b.ch = a.ch /\ b.phase = "ScoredSuccess"

\* C1: every scored attempt with prior streak s and score v leaves the streak
\* at s+1 when v reaches the pass threshold and at 0 otherwise, and leaves
\* previousSimilarityScore at v; no streak is ever negative.
C1_StreakFollowsScore ==
    [][/\ \A a \in attempts :
            ScoredNow(a) =>
              LET s == Entry(challengeProgress, a.ch).streak
                  v == a.result.similarityScore
                  e == Entry(challengeProgress', a.ch)
              IN  /\ v >= PassThreshold => e.streak = s + 1
                  /\ v < PassThreshold => e.streak = 0
                  /\ e.previousSimilarityScore = v
       /\ challengeProgress'.ty = "object" =>
            \A c \in DOMAIN challengeProgress'.m : Entry(challengeProgress', c).streak >= 0
      ]_vars

\* A challenge scored 40 (streak 0) and then 70: the streak is 1.
C1_Witness ==
    \E a \in attempts :
        /\ a.phase = "ScoredSuccess"
        /\ a.result.similarityScore = 70
        /\ a.prior.streak = 0
        /\ a.prior.previousSimilarityScore = 40
        /\ Entry(challengeProgress, a.ch).streak = 1
        /\ Entry(challengeProgress, a.ch).previousSimilarityScore = 70

\* The status of the i-th catalog entry in progress value p.
StatusAt(p, i) == Entry(p, catalog[i]).status

\* C2: the first pass of the challenge at catalog index i, i being the highest
\* Unlocked index, completes i, unlocks i+1 if it exists and was Locked, and
\* changes no status from i+2 on; a failing attempt changes no status; and no
\* challenge is Unlocked or Completed while an earlier one is Locked.
C2_UnlockPropagation ==
    [][/\ \A a \in attempts :
            ScoredNow(a) =>
              LET p == challengeProgress
                  q == challengeProgress'
                  n == Len(catalog)
                  i == IndexOf(catalog, a.ch)
                  pass == a.result.similarityScore >= PassThreshold
              IN  /\ ( /\ pass
                       /\ StatusAt(p, i) = "UNLOCKED"
                       /\ \A j \in (i + 1)..n : StatusAt(p, j) # "UNLOCKED" )
                     => /\ StatusAt(q, i) = "COMPLETED"
                        /\ (i < n /\ StatusAt(p, i + 1) = "LOCKED")
                              => StatusAt(q, i + 1) = "UNLOCKED"
                        /\ \A j \in (i + 2)..n : StatusAt(q, j) = StatusAt(p, j)
                  /\ ~pass => \A j \in 1..n : StatusAt(q, j) = StatusAt(p, j)
       /\ ( /\ challengeProgress'.ty = "object"
            /\ DOMAIN challengeProgress'.m = IdsOf(catalog) )
          => \A i, j \in 1..Len(catalog) :
                (i < j /\ StatusAt(challengeProgress', j) # "LOCKED")
                   => StatusAt(challengeProgress', i) # "LOCKED"
      ]_vars

\* In a catalog of three, the first challenge was passed for the first time:
\* it is Completed, the second is Unlocked and the third is still Locked.
C2_Witness ==
    /\ Len(catalog) = 3
    /\ challengeProgress.ty = "object"
    /\ DOMAIN challengeProgress.m = IdsOf(catalog)
    /\ \E a \in attempts :
          /\ a.phase = "ScoredSuccess"
          /\ a.ch = catalog[1]
          /\ a.prior.status = "UNLOCKED"
          /\ a.result.similarityScore >= PassThreshold
    /\ StatusAt(challengeProgress, 1) = "COMPLETED"
    /\ StatusAt(challengeProgress, 2) = "UNLOCKED"
    /\ StatusAt(challengeProgress, 3) = "LOCKED"

\* C3: a submission for a Locked challenge is rejected with
\* ChallengeLockedError: no attempt starts for a Locked challenge, and the
\* rejected submission leaves the ProgressMap, its durable copy and the
\* attempts as they were.
C3_LockedRejected ==
    [][/\ \A b \in attempts' \ attempts :
            b.phase = "AwaitingGeneration"
               => Entry(challengeProgress, b.ch).status # "LOCKED"
       /\ (lastSubmit' # lastSubmit /\ lastSubmit'.outcome = "ChallengeLockedError")
            => /\ Entry(challengeProgress, lastSubmit'.ch).status = "LOCKED"
               /\ challengeProgress' = challengeProgress
               /\ storage' = storage
               /\ persistPending' = persistPending
               /\ attempts' = attempts
      ]_vars

\* A submission for the Locked second challenge was rejected.
C3_Witness ==
    /\ lastSubmit.outcome = "ChallengeLockedError"
    /\ Len(catalog) = 2
    /\ lastSubmit.ch = catalog[2]
    /\ Entry(challengeProgress, catalog[2]).status = "LOCKED"
    /\ Entry(challengeProgress, catalog[1]).status = "UNLOCKED"
    /\ \A a \in attempts : a.ch # catalog[2]

\* C4: at most one attempt per challenge is AwaitingGeneration or Analyzing.
C4_SingleFlight ==
    \A c \in Ids : Cardinality({a \in attempts : a.ch = c /\ InFlight(a)}) <= 1

\* Attempts on two challenges are in flight together, and a further
\* submission for one of them was rejected.
C4_Witness ==
    /\ \E a, b \in attempts : a.ch # b.ch /\ InFlight(a) /\ InFlight(b)
    /\ lastSubmit.outcome = "AttemptInProgressError"
    /\ \E a \in attempts : a.ch = lastSubmit.ch /\ InFlight(a)

\* The ProgressMap shows the effect of the scored attempt a on its challenge.
EffectPresent(a) ==
    LET e == Entry(challengeProgress, a.ch)
        v == a.result.similarityScore
        pass == v >= PassThreshold
    IN  /\ e.previousSimilarityScore = v
        /\ e.streak = IF pass THEN a.prior.streak + 1 ELSE 0
        /\ e.status = IF pass /\ a.prior.status = "UNLOCKED" THEN "COMPLETED"
                      ELSE a.prior.status

\* C5: when attempts on different challenges have both been scored, in
\* either order, the ProgressMap shows the effect of both.
C5_NoLostUpdate ==
    \A a, b \in attempts :
        (a.ch # b.ch /\ a.phase = "ScoredSuccess" /\ b.phase = "ScoredSuccess")
           => EffectPresent(a) /\ EffectPresent(b)

\* Two attempts on different challenges: the one on the later catalog entry
\* was scored while the other was in flight, then the other was scored; both
\* changed their challenge's entry.
C5_Witness ==
    \E a, b \in attempts :
        /\ Len(catalog) = 2
        /\ a.ch = catalog[2] /\ b.ch = catalog[1]
        /\ a.phase = "ScoredSuccess" /\ b.phase = "ScoredSuccess"
        /\ a.overlapped /\ ~b.overlapped
        /\ Entry(challengeProgress, a.ch) # a.prior
        /\ Entry(challengeProgress, b.ch) # b.prior
        /\ EffectPresent(a) /\ EffectPresent(b)

\* The same with the attempts scored in the other order.
C5_WitnessOtherOrder ==
    \E a, b \in attempts :
        /\ Len(catalog) = 2
        /\ a.ch = catalog[1] /\ b.ch = catalog[2]
        /\ a.phase = "ScoredSuccess" /\ b.phase = "ScoredSuccess"
        /\ a.overlapped /\ ~b.overlapped
        /\ Entry(challengeProgress, a.ch) # a.prior
        /\ Entry(challengeProgress, b.ch) # b.prior
        /\ EffectPresent(a) /\ EffectPresent(b)

\* The response schema of spec 4.2: an object with a number similarityScore
\* and a feedback array of at most 3 strings.
SchemaValid(r) ==
    /\ r.k = "json"
    /\ r.ty = "object"
    /\ r.similarityScore.ty = "number"
    /\ r.feedback.ty = "array"
    /\ Len(r.feedback.items) <= 3
    /\ \A i \in 1..Len(r.feedback.items) : r.feedback.items[i] = "string"

\* C6: analyzeImages returns a result only for a response that fits the
\* schema, and throws for every other response.
C6_ReturnsOnlySchemaValid ==
    \A a \in attempts :
        /\ a.pc = "returned" => SchemaValid(a.response)
        /\ (a.pc = "threw" /\ a.response # NoTextResponse) => ~SchemaValid(a.response)

\* C7: every result analyzeImages returns, and so every stored
\* previousSimilarityScore, has its score within 0..100.
C7_ScoreInRange ==
    /\ \A a \in attempts :
          a.pc \in {"returned", "done"} /\ a.phase # "ScoredFailure"
             => a.result.similarityScore \in 0..100
    /\ challengeProgress.ty = "object" =>
          \A c \in DOMAIN challengeProgress.m :
              Entry(challengeProgress, c).previousSimilarityScore \in 0..100

\* A step of analyzeImages for some attempt: compositing, or the oracle call
\* with parsing and validation.
AnalysisStep ==
    \E a \in attempts :
        /\ a.phase = "Analyzing"
        /\ a.pc \in {"stitch", "oracle"}
        /\ a \notin attempts'
        /\ \E b \in attempts' : b.ch = a.ch /\ b.phase = "Analyzing" /\ b.pc # a.pc

\* Attempt a leaves the Analyzing state in this step.
Resolved(a) ==
    /\ a \in attempts
    /\ a.phase = "Analyzing"
    /\ a.pc \in {"returned", "threw"}
    /\ a \notin attempts'
    /\ \E b \in attempts' : b.ch = a.ch /\ b.phase \in {"ScoredSuccess", "ScoredFailure"}

\* C8: analyzeImages returns a fully validated result or throws, it leaves the
\* ProgressMap and its durable copy unchanged, and an attempt whose oracle
\* response is malformed ends as a failure with the ProgressStore as it was.
C8_NoPartialState ==
    [][/\ AnalysisStep =>
            /\ challengeProgress' = challengeProgress
            /\ storage' = storage
            /\ \A b \in attempts' : b.pc = "returned" => SchemaValid(b.response)
       /\ \A a \in attempts :
            (Resolved(a) /\ a.response # NoTextResponse /\ ~SchemaValid(a.response))
               => /\ \E b \in attempts' : b.ch = a.ch /\ b.phase = "ScoredFailure"
                  /\ challengeProgress' = challengeProgress
                  /\ storage' = storage
      ]_vars

\* The part of C8 that the code keeps: no step of analyzeImages changes the
\* ProgressMap or its durable copy.
C8_AnalysisFrame ==
    [][AnalysisStep => challengeProgress' = challengeProgress /\ storage' = storage]_vars

\* The default ProgressMap of catalog cat: one entry per catalog entry, the
\* first Unlocked and the only one, the others Locked, all counters zero.
DefaultShape(p, cat) ==
    /\ p.ty = "object"
    /\ DOMAIN p.m = IdsOf(cat)
    /\ Cardinality(DOMAIN p.m) = Len(cat)
    /\ Cardinality({c \in DOMAIN p.m : Entry(p, c).status = "UNLOCKED"}) = 1
    /\ Entry(p, cat[1]).status = "UNLOCKED"
    /\ \A c \in DOMAIN p.m :
          /\ c # cat[1] => Entry(p, c).status = "LOCKED"
          /\ Entry(p, c).streak = 0
          /\ Entry(p, c).previousSimilarityScore = 0

\* The load effect runs in this step.
Loads == app = "unmounted" /\ app' = "mounted"

\* C9: the default ProgressMap, built when nothing is stored or the stored
\* text does not parse, has one entry per catalog entry, exactly the first
\* Unlocked, the others Locked, and every streak and score 0.
C9_DefaultsShape ==
    [][(Loads /\ loadBranch' \in {"defaults", "catch"})
          => DefaultShape(challengeProgress', catalog)]_vars

\* The defaults were built for a catalog of three whose ids are not their
\* positions.
C9_Witness ==
    /\ loadBranch = "defaults"
    /\ persistPending
    /\ Len(catalog) = 3
    /\ catalog[1] # 1
    /\ Entry(challengeProgress, catalog[1]).status = "UNLOCKED"
    /\ Entry(challengeProgress, catalog[2]).status = "LOCKED"
    /\ Entry(challengeProgress, catalog[3]).status = "LOCKED"

\* The same through the catch block, after a stored text that does not parse.
C9_WitnessCatch ==
    /\ loadBranch = "catch"
    /\ persistPending
    /\ Len(catalog) = 3
    /\ DefaultShape(challengeProgress, catalog)

\* A stored text that holds a well-formed ProgressMap of catalog cat.
WellFormedText(t, cat) ==
    /\ t.k = "json"
    /\ t.ty = "object"
    /\ {t.members[i].key : i \in 1..Len(t.members)} = IdsOf(cat)
    /\ \A i \in 1..Len(t.members) :
          /\ t.members[i].value.status \in {"LOCKED", "UNLOCKED", "COMPLETED"}
          /\ t.members[i].value.streak \in Nat
          /\ t.members[i].value.previousSimilarityScore \in Int

\* C10: loading never fails the caller: an absent or corrupt stored value
\* gives exactly the default map, a stored map is used only when it is
\* well-formed, and no error is surfaced.
C10_LoadSelfHeals ==
    [][/\ Loads =>
            IF WellFormedText(storage, catalog)
            THEN challengeProgress' = JSONparse(storage).value
            ELSE DefaultShape(challengeProgress', catalog)
       /\ app' # "crashed"
      ]_vars

\* The persist effect writes in this step.
Saves == storage' # storage

\* C11: every write of the durable value writes the current, non-empty
\* ProgressMap; the first render (empty map, load not yet applied) writes
\* nothing; and a map stored by an earlier session is still the durable value
\* after the persist effect that follows its load.
C11_NoEmptySave ==
    [][/\ Saves =>
            /\ app' = "mounted"
            /\ ObjectKeys(challengeProgress').ok
            /\ ObjectKeys(challengeProgress').keys # {}
            /\ storage' = JSONstringify(challengeProgress')
       /\ Loads => storage' = storage
       /\ ( /\ persistPending /\ ~persistPending' /\ app' = "mounted"
            /\ loadBranch = "stored" /\ attempts = {} )
          => JSONparse(storage') = JSONparse(storage)
      ]_vars

\* An earlier session left a map with a scored challenge; the page was opened
\* again, the first render and the load have run, and the durable value is
\* still that map.
C11_Witness ==
    /\ app = "mounted"
    /\ loadBranch = "stored"
    /\ persistPending
    /\ attempts = {}
    /\ storage.k = "json" /\ storage.ty = "object"
    /\ \E i \in 1..Len(storage.members) :
          storage.members[i].value.previousSimilarityScore = 70
    /\ challengeProgress = JSONparse(storage).value

\* The persist effect writes the map in this step.
SavesMap ==
    /\ app = "mounted" /\ app' = "mounted"
    /\ persistPending /\ ~persistPending'
    /\ ObjectKeys(challengeProgress).keys # {}

\* C12: the load that follows a save (no save in between) yields the map that
\* was saved: the same keys, and the same status, streak and
\* previousSimilarityScore for every key.
C12_RoundTrip ==
    [][SavesMap =>
          /\ loadProgress(storage', catalog).branch = "stored"
          /\ loadProgress(storage', catalog).value = challengeProgress
      ]_vars

\* The part of C12 that the code keeps: the round trip of every map whose
\* numbers are finite.
C12_RoundTripFinite ==
    [][( /\ SavesMap
         /\ \A c \in DOMAIN challengeProgress.m :
               Entry(challengeProgress, c).previousSimilarityScore # Infinity )
          => /\ loadProgress(storage', catalog).branch = "stored"
             /\ loadProgress(storage', catalog).value = challengeProgress
      ]_vars

\* Attempt a ends as a failure in this step.
FailedNow(a) ==
    /\ a \in attempts
    /\ a.phase \in {"AwaitingGeneration", "Analyzing"}
    /\ a \notin attempts'
    /\ \E b \in attempts' : b.ch = a.ch /\ b.phase = "ScoredFailure"

\* The in-memory map is non-empty and its persist effect is scheduled.
Dirty ==
    /\ app = "mounted"
    /\ persistPending
    /\ ObjectKeys(challengeProgress).ok
    /\ ObjectKeys(challengeProgress).keys # {}

\* The durable copy is the in-memory map.
Persisted == storage = JSONstringify(challengeProgress)

\* C13: the in-memory map changes only by the load and by a scored attempt;
\* an attempt scored with a result (pass or fail) changes it once and
\* schedules one write; a failed generation, compositing or scoring step
\* changes nothing and schedules no write; every write is the one scheduled
\* write; and once a non-empty map is scheduled for writing, the durable copy
\* eventually equals the in-memory map.
C13_MutationsPersisted ==
    /\ [][/\ \A a \in attempts :
               ScoredNow(a) =>
                  /\ ~persistPending /\ persistPending'
                  /\ challengeProgress' = applyResult(challengeProgress, catalog, a)
                  /\ storage' = storage
          /\ \A a \in attempts :
               FailedNow(a) =>
                  /\ challengeProgress' = challengeProgress
                  /\ persistPending' = persistPending
                  /\ storage' = storage
          /\ AnalysisStep =>
                  /\ challengeProgress' = challengeProgress
                  /\ persistPending' = persistPending
                  /\ storage' = storage
          /\ Saves => persistPending /\ ~persistPending'
          /\ challengeProgress' # challengeProgress =>
                  \/ Loads
                  \/ app' # "mounted"
                  \/ \E a \in attempts : ScoredNow(a)
         ]_vars
    /\ (Dirty ~> Persisted)

\* An attempt scored below the threshold changed its challenge's entry, and
\* the changed map has been written.
C13_Witness ==
    \E a \in attempts :
        /\ a.phase = "ScoredSuccess"
        /\ a.result.similarityScore < PassThreshold
        /\ Entry(challengeProgress, a.ch) # a.prior
        /\ ~persistPending
        /\ Persisted

\* The failures of the compositor and of the scoring call.
CompositorFailures == {"ImageLoadError", "RenderError"}
ScoringFailures == {"TransportError", "MalformedResponseError", "UnknownError"}

\* Attempt a before and b after a step, within one analyzeImages call.
SameCall(a, b) ==
    /\ a \in attempts /\ b \in attempts'
    /\ a.ch = b.ch
    /\ a.phase = "Analyzing"

\* C14: within one analyzeImages call the oracle is requested only in the
\* step in which stitchImages has returned the composite, and a call whose
\* compositing failed never requests the oracle.
C14_CompositeBeforeOracle ==
    /\ [][\A a \in attempts, b \in attempts' :
            SameCall(a, b) =>
               /\ b.oracleCalls > a.oracleCalls =>
                     /\ a.pc = "stitch"
                     /\ b.pc = "oracle"
                     /\ ~b.error.thrown
                     /\ b.failure = "none"
               /\ (a.pc = "stitch" /\ b.error.thrown) =>
                     /\ b.pc = "threw"
                     /\ b.failure \in CompositorFailures
                     /\ b.oracleCalls = 0
         ]_vars
    /\ [](\A a \in attempts :
            /\ a.failure \in CompositorFailures => a.oracleCalls = 0
            /\ a.pc \in {"oracle", "returned"} => (a.oracleCalls = 1 /\ a.failure = "none"))

\* The canvas context could not be obtained: the attempt ended as a failure
\* and the oracle was never requested.
C14_Witness ==
    \E a \in attempts :
        /\ a.phase = "ScoredFailure"
        /\ a.failure = "RenderError"
        /\ a.error = Wrapped(Thrown("Could not get canvas context"))
        /\ a.oracleCalls = 0

\* C15: one analyzeImages call requests the oracle at most once, and a
\* failure of compositing, of the oracle call or of the validation ends the
\* call with a thrown error and no result: no step of the call follows it.
C15_NoRetry ==
    /\ [](\A a \in attempts :
            /\ a.oracleCalls <= 1
            /\ a.failure \in (CompositorFailures \cup ScoringFailures) =>
                  /\ a.error.thrown
                  /\ a.result = NoResult
                  /\ a.pc \in {"threw", "done"}
                  /\ a.phase \in {"Analyzing", "ScoredFailure"})
    /\ [][\A a \in attempts, b \in attempts' :
            (SameCall(a, b) /\ a.pc = "threw" /\ b # a) =>
               /\ b.phase = "ScoredFailure"
               /\ b.oracleCalls = a.oracleCalls
               /\ b.error = a.error
         ]_vars

\* The oracle could not be reached: the one request was not repeated and the
\* attempt ended as a failure with the error.
C15_Witness ==
    \E a \in attempts :
        /\ a.phase = "ScoredFailure"
        /\ a.failure = "TransportError"
        /\ a.oracleCalls = 1
        /\ a.error.thrown
        /\ a.result = NoResult

\* The stitchImages call of attempt a is over.
StitchOver(a) == (a.phase = "Analyzing" /\ a.pc # "stitch") \/ a.pc = "done"

\* C16: no completed stitchImages call, returned or thrown, leaves the blob
\* URL it created for the target image unrevoked.
C16_BlobReleased ==
    \A a \in attempts : StitchOver(a) => a.blobUrl # "live"

\* The part of C16 that the code keeps: a stitchImages call that returned has
\* revoked its blob URL.
C16_ReleasedOnSuccess ==
    \A a \in attempts : a.oracleCalls > 0 => a.blobUrl = "revoked"

\* C17: the error the caller receives for a failed analysis names the kind of
\* the failure: TransportError, MalformedResponseError, UnknownError,
\* ImageLoadError or RenderError.
C17_FailureKindIdentified ==
    \A a \in attempts :
        a.failure \in (CompositorFailures \cup ScoringFailures) =>
            /\ a.error.thrown
            /\ a.error.name = a.failure

\* What the code gives the caller instead: for every kind of failure a plain
\* Error, whose message is either the caught Error's message behind a fixed
\* prefix or a fixed text.
C17_PlainErrorOnly ==
    \A a \in attempts :
        a.failure \in (CompositorFailures \cup ScoringFailures) =>
            /\ a.error.thrown
            /\ a.error.name = "Error"

\* C18: the streak-change signal is transient and no part of the persisted
\* state.  A signal of increase or decrease leads to none with no further
\* action of the user, a second signal that arrives while the first is
\* showing included: while a signal shows, a timer that clears it is pending.
\* A write to the store is the text of the progress map alone, and a step
\* that changes the signal and not the map writes nothing.
C18_SignalTransient ==
    /\ (streakChange # "none") ~> (streakChange = "none")
    /\ [](streakChange # "none" => streakTimer)
    /\ [][/\ storage' # storage => storage' = JSONstringify(challengeProgress)
          /\ (streakChange' # streakChange /\ challengeProgress' = challengeProgress)
                 => storage' = storage]_vars

\* A second, different signal has arrived while the first was showing: the
\* attempt was scored under a signal, and its own signal shows now.
C18_Witness ==
    \E a \in attempts :
        /\ a.pc = "done"
        /\ a.shown # "none"
        /\ streakChange \notin {"none", a.shown}
        /\ streakTimer

\* The step is the completion of call c.
Completion(c) ==
    /\ BagIn(c, calls)
    /\ app = "mounted"
    /\ app' = "mounted"
    /\ calls' = calls (-) SetToBag({c})

\* The registry's entry for a username: users[username].
Registered(item, username) == Lookup(getUsers(item), username)

\* Call c is one that has to fail: a login with an unknown username or a
\* wrong password, a signup with a username the registry holds.
HasToFail(c) ==
    \/ /\ c.op = "login"
       /\ \/ ~Registered(usersItem, c.username).found
          \/ Registered(usersItem, c.username).value # c.password
    \/ /\ c.op = "signup"
       /\ Registered(usersItem, c.username).found

SessionUnchanged == UNCHANGED <<currentUser, usersItem, currentUserItem>>

\* C19: a failed session call leaves the session state unchanged.  A login
\* with an unknown username or a wrong password, and a signup with a
\* registered username, throw and leave the current user (in memory and in
\* storage) and the stored registry as they were before the call.
C19_FailedCallLeavesSession ==
    [][\A c \in BagToSet(calls) :
          Completion(c) /\ HasToFail(c) =>
              /\ lastCall'.op = c.op
              /\ lastCall'.outcome # "ok"
              /\ SessionUnchanged]_vars

\* The part of C19 that holds: a call that throws has changed nothing.
C19_ThrowLeavesSession ==
    [][\A c \in BagToSet(calls) :
          Completion(c) /\ lastCall'.outcome # "ok" => SessionUnchanged]_vars

\* Every call that has to fail throws, as long as no username is registered
\* with the empty password.
C19_ThrowsUnlessEmptyPassword ==
    [][\A c \in BagToSet(calls) :
          (/\ Completion(c)
           /\ HasToFail(c)
           /\ Registered(usersItem, c.username).found
                 => Registered(usersItem, c.username).value # "")
          => lastCall'.outcome # "ok"]_vars

\* The in-memory current user and the stored current-user record agree: both
\* the same user, or both absent.
Agree ==
    IF currentUser.isNull THEN currentUserItem.k = "absent"
    ELSE currentUserItem = UserText(currentUser)

\* C20: under every interleaving of concurrent login, signup and logout
\* calls, the stored password of a registered username never changes once
\* set; of overlapping signup calls for one username one succeeds and the
\* others fail with 'Username already exists.' (a signup that completes for a
\* username the registry holds fails so); and once all calls have completed
\* the in-memory current user and the stored record agree.
C20_RegistryStable ==
    /\ [][\A u \in Usernames :
             Registered(usersItem, u).found => Registered(usersItem', u) = Registered(usersItem, u)]_vars
    /\ [][\A c \in BagToSet(calls) :
             (Completion(c) /\ c.op = "signup" /\ Registered(usersItem, c.username).found)
                 => lastCall'.outcome = "Username already exists."]_vars
    /\ []((app = "mounted" /\ calls = EmptyBag) => Agree)

\* The parts of C20 that hold: a password that is not empty never changes, a
\* signup for a username registered with such a password fails, and the
\* current user in memory and in storage agree after every call.
C20_NonEmptyPasswordStable ==
    /\ [][\A u \in Usernames :
             (Registered(usersItem, u).found /\ Registered(usersItem, u).value # "")
                 => Registered(usersItem', u) = Registered(usersItem, u)]_vars
    /\ [][\A c \in BagToSet(calls) :
             (/\ Completion(c)
              /\ c.op = "signup"
              /\ Registered(usersItem, c.username).found
              /\ Registered(usersItem, c.username).value # "")
                 => lastCall'.outcome = "Username already exists."]_vars
    /\ [](app = "mounted" => Agree)
====
